---- MODULE Spec2Model ----
(***************************************************************************)
(* Model of src/mainModelPage.py: a Streamlit chat page.  One session's    *)
(* state is st.session_state["messages"] and                               *)
(* st.session_state["auto_execute_clarification"]; the Log Sink is the     *)
(* Google sheet the module-level `sheet` handle appends rows to.  Every    *)
(* user interaction re-executes the script top to bottom (one render       *)
(* pass); a button's on_click callback runs first, then the script.        *)
(*                                                                         *)
(* Texts shown in the chat are TLA+ strings.  The user id is a sequence of *)
(* characters, because the script tests user_id_input.strip().             *)
(* The three collaborators the script cannot control are inputs of a pass: *)
(*   sec        what st.secrets["api_keys"]["google"] does                 *)
(*   api        what client.models.generate_content does                   *)
(*   append_ok  whether sheet.append_row returns or raises                 *)
(***************************************************************************)
EXTENDS Integers, Sequences, FiniteSets, TLC

VARIABLES
    messages,                    \* st.session_state["messages"]
    auto_execute_clarification,  \* st.session_state["auto_execute_clarification"]
    sheet,                       \* module-level `sheet`: "None" or "open"
    rows,                        \* the rows of the sheet, oldest first
    model_options,               \* the model ids a request can carry
    button_shown,                \* the clarification button is on the page
    pc,                          \* "idle", or "callback_done": on_click ran, the script has not
    unanswered,                  \* calls of trigger_clarification so far, less the request
                                 \* cycles the clarification path has started so far
    last                         \* what the most recent step did (history variable)

vars == <<messages, auto_execute_clarification, sheet, rows, model_options,
          button_shown, pc, unanswered, last>>

\* ---------------------------------------------------------------- bounds
MaxTurns == 4
MaxRows == 1
MaxUnanswered == 1

\* ------------------------------------------------------------- constants
None == "<None>"

MODEL_MAPPING == [m \in {"gemini-3-pro-preview"} |-> "gemini-3-pro-preview"]

\* Model ids for the specification that calls the request cycle with an id
\* outside MODEL_MAPPING as well.
ModelIds == {"gemini-3-pro-preview", "gpt-9"}

explanation_request ==
    "I don't understand the previous explanation. Please break it down further."

\* Values of the user id text box.
UserIds == { <<>>, <<" ">>, <<"u">> }

\* What st.chat_input returns: None when nothing was sent, else the text.
ChatInputs == { None, "p", explanation_request }

\* st.secrets["api_keys"]["google"]: returns the key, raises KeyError, or
\* raises something else (no secrets file at all is a FileNotFoundError).
SecretsOutcomes == { "ok", "KeyError", "OtherError" }

\* generate_content: returns a response, or raises.
ApiOutcomes == { [ok |-> TRUE, text |-> "r"], [ok |-> FALSE, text |-> "boom"] }

\* datetime.now().strftime(...): the clock is not modelled.
Timestamp == "YYYY-MM-DD HH:MM:SS"

\* ---------------------------------------------------------------- helpers
\* Python truthiness of an optional string.
Truthy(s) == s # None /\ s # ""

\* str.strip() on a sequence of characters.
RECURSIVE LStrip(_)
LStrip(s) == IF s # <<>> /\ Head(s) = " " THEN LStrip(Tail(s)) ELSE s

RECURSIVE RStrip(_)
RStrip(s) ==
    IF s # <<>> /\ s[Len(s)] = " " THEN RStrip(SubSeq(s, 1, Len(s) - 1)) ELSE s

Strip(s) == RStrip(LStrip(s))

Turn(role, content) == [role |-> role, content |-> content]

\* messages and messages[-1]["role"] == "assistant"
LastIsAssistant(msgs) == msgs # <<>> /\ msgs[Len(msgs)].role = "assistant"

\* Every user turn is immediately followed by an assistant turn.
Paired(msgs) ==
    \A i \in 1..Len(msgs) :
        msgs[i].role = "user" => (i < Len(msgs) /\ msgs[i + 1].role = "assistant")

\* ------------------------------------------------------- get_ai_response
KeyErrorText == "Error: Gemini API key not found in secrets."

NotConfiguredText == "Error: Selected model not configured."

ApiErrorText(e) == "Error calling API: " \o e

\* Lines 65-107.  The result is the returned text, or raised = TRUE when an
\* exception leaves the function: only KeyError is caught around the secrets
\* lookup.  failed tells an error text from a generated reply.  The history
\* and the system instruction only travel to the API and are left out.
get_ai_response(model_selection, sec, api) ==
    IF sec = "KeyError"
    THEN [raised |-> FALSE, failed |-> TRUE, text |-> KeyErrorText]
    ELSE IF sec = "OtherError"
    THEN [raised |-> TRUE, failed |-> TRUE, text |-> None]
    ELSE IF model_selection \in DOMAIN MODEL_MAPPING
    THEN IF api.ok
         THEN [raised |-> FALSE, failed |-> FALSE, text |-> api.text]
         ELSE [raised |-> FALSE, failed |-> TRUE, text |-> ApiErrorText(api.text)]
    ELSE [raised |-> FALSE, failed |-> TRUE, text |-> NotConfiguredText]

\* -------------------------------------------------- save_to_google_sheets
\* What became of the write: the sheet handle is None, append_row raised
\* (caught, reported with st.error), or the row was appended.
WriteResult(sh, append_ok) ==
    IF sh = None THEN "no_sheet" ELSE IF append_ok THEN "ok" ELSE "failed"

\* save_to_google_sheets with the test of line 52 inverted: nothing is ever
\* appended.
save_to_google_sheets_InvertedGuard(sh, rws, user_id, model_name, prompt, response, is_clarification, append_ok) ==
    rws

\* save_to_google_sheets with line 56 ignoring is_clarification.
save_to_google_sheets_AlwaysFalse(sh, rws, user_id, model_name, prompt, response, is_clarification, append_ok) ==
    IF sh = None \/ ~append_ok
    THEN rws
    ELSE Append(rws, <<user_id, Timestamp, model_name, prompt, response, "FALSE">>)

\* Lines 48-63: the rows of the sheet after the call.
save_to_google_sheets(sh, rws, user_id, model_name, prompt, response, is_clarification, append_ok) ==
    IF sh = None
    THEN rws
    ELSE LET clarification_log == IF is_clarification THEN "TRUE" ELSE "FALSE"
             row_data == <<user_id, Timestamp, model_name, prompt, response,
                           clarification_log>>
         IN  IF append_ok THEN Append(rws, row_data) ELSE rws

\* ------------------------------------------------- session state helpers
\* clear_chat_history without line 119.
clear_chat_history_KeepsTurns ==
    [messages |-> messages, auto_execute_clarification |-> FALSE]

\* Lines 115-120.
clear_chat_history == [messages |-> <<>>, auto_execute_clarification |-> FALSE]

\* Line 253 without the test of the last turn's role.
ButtonRendered_AnyTurn(msgs) == msgs # <<>>

\* Lines 252-254: the clarification button is rendered.
ButtonRendered(msgs) == LastIsAssistant(msgs)

\* --------------------------------------------------------- the script
\* Lines 194-216 without the reset of line 210.
ResolveInput_NoReset(clarification_triggered, msgs, prompt) ==
    IF clarification_triggered
    THEN IF LastIsAssistant(msgs)
         THEN [final_prompt |-> explanation_request, is_clarification |-> TRUE,
               flag |-> TRUE]
         ELSE [final_prompt |-> None, is_clarification |-> FALSE, flag |-> FALSE]
    ELSE [final_prompt |-> IF Truthy(prompt) THEN prompt ELSE None,
          is_clarification |-> FALSE, flag |-> clarification_triggered]

\* Lines 194-216: the outgoing prompt of this pass and the flag after it.
ResolveInput(clarification_triggered, msgs, prompt) ==
    IF clarification_triggered
    THEN IF LastIsAssistant(msgs)
         THEN [final_prompt |-> explanation_request, is_clarification |-> TRUE,
               flag |-> FALSE]
         ELSE [final_prompt |-> None, is_clarification |-> FALSE, flag |-> FALSE]
    ELSE IF Truthy(prompt)
    THEN [final_prompt |-> prompt, is_clarification |-> FALSE,
          flag |-> clarification_triggered]
    ELSE [final_prompt |-> None, is_clarification |-> FALSE,
          flag |-> clarification_triggered]

\* Lines 240-250 skipping history and log when the reply is an error text.
CompleteCycle_DropsFailure(with_user, rws, reply, user_id_input, selected_label, final_prompt, is_clarification, append_ok) ==
    IF reply.failed
    THEN [messages |-> with_user, rows |-> rws, write |-> "none"]
    ELSE [messages |-> Append(with_user, Turn("assistant", reply.text)),
          rows     |-> save_to_google_sheets(sheet, rws, user_id_input,
                                             selected_label, final_prompt,
                                             reply.text, is_clarification,
                                             append_ok),
          write    |-> WriteResult(sheet, append_ok)]

\* Lines 240-250 with step E before step D and a write failure escaping: the
\* assistant turn is appended only after a write that went through.
CompleteCycle_LogFirst(with_user, rws, reply, user_id_input, selected_label, final_prompt, is_clarification, append_ok) ==
    [messages |-> IF WriteResult(sheet, append_ok) = "ok"
                  THEN Append(with_user, Turn("assistant", reply.text))
                  ELSE with_user,
     rows     |-> save_to_google_sheets(sheet, rws, user_id_input, selected_label,
                                        final_prompt, reply.text,
                                        is_clarification, append_ok),
     write    |-> WriteResult(sheet, append_ok)]

\* Lines 240-250: append the assistant turn, then log.
CompleteCycle(with_user, rws, reply, user_id_input, selected_label, final_prompt, is_clarification, append_ok) ==
    [messages |-> Append(with_user, Turn("assistant", reply.text)),
     rows     |-> save_to_google_sheets(sheet, rws, user_id_input, selected_label,
                                        final_prompt, reply.text,
                                        is_clarification, append_ok),
     write    |-> WriteResult(sheet, append_ok)]

\* Lines 218-250: step 5.  outcome is "no_input" (nothing to process),
\* "blocked" (empty user id), "completed", or "aborted" (get_ai_response
\* raised after the user turn was appended; the script run ends there).
ProcessPrompt(msgs, rws, final_prompt, is_clarification, user_id_input, selected_label, sec, api, append_ok) ==
    IF ~Truthy(final_prompt)
    THEN [messages |-> msgs, rows |-> rws, outcome |-> "no_input",
          failed |-> FALSE, ai_reply |-> None, write |-> "none"]
    ELSE IF Strip(user_id_input) = <<>>
    THEN [messages |-> msgs, rows |-> rws, outcome |-> "blocked",
          failed |-> FALSE, ai_reply |-> None, write |-> "none"]
    ELSE LET with_user == Append(msgs, Turn("user", final_prompt))
             reply == get_ai_response(selected_label, sec, api)
             done == CompleteCycle(with_user, rws, reply, user_id_input,
                                   selected_label, final_prompt,
                                   is_clarification, append_ok)
         IN  IF reply.raised
             THEN [messages |-> with_user, rows |-> rws, outcome |-> "aborted",
                   failed |-> TRUE, ai_reply |-> None, write |-> "none"]
             ELSE [messages |-> done.messages, rows |-> done.rows,
                   outcome |-> "completed", failed |-> reply.failed,
                   ai_reply |-> reply.text, write |-> done.write]

\* One execution of the script, lines 122-254, with the widget values and
\* the collaborators' outcomes of this pass.
Script(prompt, user_id_input, selected_label, sec, api, append_ok) ==
    LET r == ResolveInput(auto_execute_clarification, messages, prompt)
        p == ProcessPrompt(messages, rows, r.final_prompt, r.is_clarification,
                           user_id_input, selected_label, sec, api, append_ok)
    IN  /\ messages' = p.messages
        /\ auto_execute_clarification' = r.flag
        /\ rows' = p.rows
        /\ button_shown' = (p.outcome # "aborted" /\ ButtonRendered(p.messages))
        /\ pc' = "idle"
        /\ unanswered' = unanswered -
               (IF r.is_clarification /\ p.outcome \in {"completed", "aborted"}
                THEN 1 ELSE 0)
        /\ last' = [op |-> "script", prompt |-> prompt,
                    final_prompt |-> r.final_prompt,
                    is_clarification |-> r.is_clarification,
                    user_id |-> user_id_input, model |-> selected_label,
                    outcome |-> p.outcome, failed |-> p.failed,
                    ai_reply |-> p.ai_reply, write |-> p.write]
        /\ UNCHANGED <<sheet, model_options>>

\* A step that is no script run leaves these fields of last empty.
NoPass(op) ==
    [op |-> op, prompt |-> None, final_prompt |-> None,
     is_clarification |-> FALSE, user_id |-> <<>>, model |-> None,
     outcome |-> "none", failed |-> FALSE, ai_reply |-> None, write |-> "none"]

\* The collaborators' outcomes of one pass.  An outcome the pass does not
\* consult is not enumerated: nothing is looked up or called unless a request
\* cycle runs, the API is called only with a key and a configured model, and
\* append_row only after get_ai_response returned, on a sheet that is open.
Outcomes(cycle_runs, selected_label) ==
    { e \in [sec : SecretsOutcomes, api : ApiOutcomes, append_ok : BOOLEAN] :
        /\ ~cycle_runs => e.sec = "ok"
        /\ (~cycle_runs \/ e.sec # "ok"
               \/ selected_label \notin DOMAIN MODEL_MAPPING) => e.api.ok
        /\ (~cycle_runs \/ e.sec = "OtherError" \/ sheet = None) => e.append_ok }

\* The bounds leave room for one more request cycle.
Room == Len(messages) + 2 <= MaxTurns /\ Len(rows) < MaxRows

\* ------------------------------------------------------------- actions
\* A rerun with no button involved: a prompt sent through st.chat_input, a
\* changed user id, the "Submit" button beside it (a toast only).
RenderPass ==
    /\ pc = "idle"
    /\ \E prompt \in ChatInputs, user_id_input \in UserIds,
          selected_label \in model_options :
          /\ Truthy(prompt) => Room
          /\ \E e \in Outcomes(Truthy(prompt) /\ Strip(user_id_input) # <<>>,
                                selected_label) :
                Script(prompt, user_id_input, selected_label,
                       e.sec, e.api, e.append_ok)

\* Lines 109-113 and 254: the on_click callback of the clarification button.
trigger_clarification ==
    /\ pc = "idle"
    /\ button_shown
    /\ Room
    /\ unanswered < MaxUnanswered
    /\ auto_execute_clarification' = TRUE
    /\ pc' = "callback_done"
    /\ unanswered' = unanswered + 1
    /\ last' = NoPass("trigger_clarification")
    /\ UNCHANGED <<messages, sheet, rows, model_options, button_shown>>

\* The script run that follows the callback; st.chat_input returns None.
RerunAfterCallback ==
    /\ pc = "callback_done"
    /\ \E user_id_input \in UserIds, selected_label \in model_options :
          \E e \in Outcomes(Strip(user_id_input) # <<>>, selected_label) :
              Script(None, user_id_input, selected_label,
                     e.sec, e.api, e.append_ok)

\* Lines 169-173: the clear button, then st.rerun(): a pass with no input
\* over the emptied session.
ClearChat ==
    /\ pc = "idle"
    /\ messages' = clear_chat_history.messages
    /\ auto_execute_clarification' = clear_chat_history.auto_execute_clarification
    /\ button_shown' = ButtonRendered(clear_chat_history.messages)
    /\ last' = NoPass("clear")
    /\ UNCHANGED <<sheet, rows, model_options, pc, unanswered>>

\* Lines 126-131 and 17-44: a fresh session; the cached sheet handle is the
\* sheet or None for the whole run.
InitSession ==
    /\ messages = <<>>
    /\ auto_execute_clarification = FALSE
    /\ sheet \in {None, "open"}
    /\ rows = <<>>
    /\ button_shown = FALSE
    /\ pc = "idle"
    /\ unanswered = 0
    /\ last = NoPass("init")

\* Line 167: the selectbox offers the keys of MODEL_MAPPING.
Init == InitSession /\ model_options = DOMAIN MODEL_MAPPING

\* The request cycle called with any model id, configured or not.
InitAnyModel == InitSession /\ model_options = ModelIds

Next == RenderPass \/ trigger_clarification \/ RerunAfterCallback \/ ClearChat

Spec == Init /\ [][Next]_vars

SpecAnyModel == InitAnyModel /\ [][Next]_vars

\* ================================================================ claims
\* The step just taken was a run of the script.
Ran == last'.op = "script"

\* The two turns a request cycle appends.
CycleTurns == <<Turn("user", last'.final_prompt), Turn("assistant", last'.ai_reply)>>

\* The row a request cycle logs.
CycleRow(flag) ==
    <<last'.user_id, Timestamp, last'.model, last'.final_prompt, last'.ai_reply, flag>>

ErrorTexts == {KeyErrorText, NotConfiguredText} \cup
              {ApiErrorText(a.text) : a \in {x \in ApiOutcomes : ~x.ok}}

\* C1: a pass that begins with auto_execute_clarification set ends with it
\* cleared, whether or not it produced a request cycle; the clarification
\* path produces a prompt only in a pass that began with the flag set, so a
\* pass with the flag clear and nothing typed has no outgoing prompt; and the
\* clarification cycles never outnumber the triggers.
C1_OneShotFlag ==
    [][Ran =>
         /\ auto_execute_clarification => ~auto_execute_clarification'
         /\ last'.is_clarification => auto_execute_clarification
         /\ (~auto_execute_clarification /\ ~Truthy(last'.prompt))
               => last'.final_prompt = None
         /\ unanswered' >= 0]_vars

\* C1 witness: a pass began with the flag set, resolved the clarification
\* prompt, was blocked by an empty user id, and left the flag cleared.
C1_Witness ==
    /\ last.op = "script"
    /\ last.is_clarification
    /\ last.outcome = "blocked"
    /\ ~auto_execute_clarification
    /\ unanswered = 1

\* C2: after a completed request cycle the number of turns is even, and a
\* pass blocked by an empty user id or an empty prompt leaves the turns alone.
C2_EvenAfterCycle ==
    [][Ran =>
         /\ last'.outcome = "completed" => Len(messages') % 2 = 0
         /\ last'.outcome \in {"blocked", "no_input"} => messages' = messages]_vars

\* C3, as claimed: every completed cycle adds exactly one row to the sheet,
\* and a pass that fails validation adds none.
C3_OneEntryPerCycle ==
    [][Ran =>
         /\ last'.outcome = "completed" => Len(rows') = Len(rows) + 1
         /\ last'.outcome \in {"blocked", "no_input"} => rows' = rows]_vars

\* C3, amended: a completed cycle adds exactly one row when the sheet is open
\* and append_row returns, and none otherwise; every other step leaves the
\* rows alone.
C3_OneEntryPerLoggedCycle ==
    [][IF Ran /\ last'.outcome = "completed" /\ last'.write = "ok"
       THEN Len(rows') = Len(rows) + 1 /\ SubSeq(rows', 1, Len(rows)) = rows
       ELSE rows' = rows]_vars

\* C3 witness: a completed cycle whose row reached the sheet.
C3_Witness ==
    /\ last.op = "script"
    /\ last.outcome = "completed"
    /\ last.write = "ok"
    /\ Len(rows) = 1

\* C4, as claimed: when get_ai_response returns an error text the cycle
\* appends the user turn and an assistant turn holding that text, and logs
\* one row whose response is that text.
C4_ErrorLogged ==
    [][(Ran /\ last'.outcome = "completed" /\ last'.failed) =>
         /\ last'.ai_reply \in ErrorTexts
         /\ messages' = messages \o CycleTurns
         /\ Len(rows') = Len(rows) + 1
         /\ rows'[Len(rows')][5] = last'.ai_reply]_vars

\* C4, amended: the two turns are appended, and the row is logged when the
\* sheet is open and append_row returns; otherwise no row is added.
C4_ErrorLoggedWhenSinkUp ==
    [][(Ran /\ last'.failed /\ last'.outcome # "aborted") =>
         /\ last'.outcome = "completed"
         /\ last'.ai_reply \in ErrorTexts
         /\ messages' = messages \o CycleTurns
         /\ IF last'.write = "ok"
            THEN /\ Len(rows') = Len(rows) + 1
                 /\ rows'[Len(rows')][5] = last'.ai_reply
            ELSE rows' = rows]_vars

\* C4 witness: the API call raised, and the error text is the last turn and
\* the response of the last row.
C4_Witness ==
    /\ last.op = "script"
    /\ last.failed
    /\ last.ai_reply = ApiErrorText("boom")
    /\ messages[Len(messages)] = Turn("assistant", ApiErrorText("boom"))
    /\ rows # <<>>
    /\ rows[Len(rows)][5] = ApiErrorText("boom")

C6_SinkFailureKeepsTurns ==
    [][Ran =>
         /\ (last'.outcome = "completed" /\ last'.write \in {"failed", "no_sheet"})
               => (messages' = messages \o CycleTurns /\ rows' = rows)
         /\ (Truthy(last'.final_prompt) /\ Strip(last'.user_id) # <<>>)
               => last'.outcome \in {"completed", "aborted"}
         /\ sheet' = sheet /\ pc' = "idle"]_vars

\* C6 witness: with no sheet at all, hence after a first cycle whose write
\* went nowhere, a clarification cycle has completed.
C6_Witness ==
    /\ sheet = None
    /\ last.op = "script"
    /\ last.is_clarification
    /\ last.outcome = "completed"
    /\ last.write = "no_sheet"
    /\ Len(messages) = 4

\* C7: trigger_clarification runs, and the flag goes from clear to set, only
\* in a state whose last turn is an assistant turn, and it changes neither
\* the turns nor the rows; in a state with no turns or a last turn that is
\* not an assistant turn the button is not on the page.
C7_TriggerOnlyAfterAssistant ==
    [][/\ (last'.op = "trigger_clarification"
              \/ (auto_execute_clarification' /\ ~auto_execute_clarification))
          => (LastIsAssistant(messages) /\ messages' = messages /\ rows' = rows)
       /\ ~LastIsAssistant(messages') => ~button_shown']_vars

\* C7 witness: the callback has set the flag.
C7_Witness ==
    /\ auto_execute_clarification
    /\ pc = "callback_done"
    /\ last.op = "trigger_clarification"

\* C8: a row added by a pass holds the user id and model of that pass, the
\* text of the user turn the pass appended, and the reply; its flag is "TRUE"
\* exactly when the pass began with the clarification flag set, in which case
\* the prompt is explanation_request; a typed prompt is logged as typed with
\* "FALSE".
C8_RowRecordsCycle ==
    [][(Ran /\ rows' # rows) =>
         LET row == rows'[Len(rows')]
         IN  /\ rows' = Append(rows, row)
             /\ row = CycleRow(IF auto_execute_clarification THEN "TRUE" ELSE "FALSE")
             /\ last'.user_id \in UserIds /\ last'.model \in model_options
             /\ messages' = messages \o <<Turn("user", row[4]), Turn("assistant", row[5])>>
             /\ row[6] = "TRUE" => row[4] = explanation_request
             /\ ~auto_execute_clarification
                   => (row[4] = last'.prompt /\ row[6] = "FALSE")]_vars

\* C8 witness: the last row is a clarification row.
C8_Witness ==
    /\ rows # <<>>
    /\ rows[Len(rows)] = <<(<<"u">>), Timestamp, "gemini-3-pro-preview",
                           explanation_request, "r", "TRUE">>
    /\ last.is_clarification

\* C9: clearing empties the turns, clears the flag and leaves the rows alone.
C9_ClearKeepsLog ==
    [][last'.op = "clear" =>
         /\ messages' = <<>>
         /\ ~auto_execute_clarification'
         /\ rows' = rows]_vars

\* C9 witness: the session was cleared after a row had been logged.
C9_Witness ==
    /\ last.op = "clear"
    /\ messages = <<>>
    /\ rows # <<>>

\* C10: between passes every user turn is followed by its assistant turn.
C10_NoOrphanUserTurn == pc = "idle" => Paired(messages)

====
